---- MODULE Spec2Model ----
(***************************************************************************)
(* A model of sudoku.py: the driver sudoku() that reads a 9x9 grid and     *)
(* calls sud() until the returned dict has the key True, the sweep sud()   *)
(* and its helpers checkrow, checkcol and checkbox.                        *)
(* Grids are functions Idx -> Idx -> 0..9, indexed from 0 as in the code.  *)
(***************************************************************************)
EXTENDS Integers, Sequences, FiniteSets, TLC

VARIABLES puzzle, done, pc

vars == <<puzzle, done, pc>>

(* range(9) *)
N == 9

Idx == 0 .. (N - 1)

Digits == 1 .. N

Cells == Idx \X Idx

Range(s) == {s[k] : k \in DOMAIN s}

(* the sample input kept in sudoku() for debugging *)
Sample ==
  [i \in Idx |-> [j \in Idx |->
     << <<0,2,0,9,4,5,0,7,8>>,
        <<0,0,9,0,6,2,0,0,0>>,
        <<0,7,0,1,0,0,2,0,5>>,
        <<0,1,0,8,0,9,4,0,0>>,
        <<0,0,0,0,5,0,0,0,0>>,
        <<0,0,5,4,0,1,0,6,0>>,
        <<1,0,7,0,0,8,0,2,0>>,
        <<0,0,0,3,2,0,1,0,0>>,
        <<8,6,0,5,1,4,0,3,0>> >>[i + 1][j + 1]]]

(* a complete grid that agrees with Sample on every clue; the typed-in     *)
(* grids of the model are variations of it                                 *)
Sol ==
  [i \in Idx |-> [j \in Idx |->
     << <<3,2,1,9,4,5,6,7,8>>,
        <<5,8,9,7,6,2,3,4,1>>,
        <<4,7,6,1,8,3,2,9,5>>,
        <<6,1,3,8,7,9,4,5,2>>,
        <<7,4,8,2,5,6,9,1,3>>,
        <<2,9,5,4,3,1,8,6,7>>,
        <<1,3,7,6,9,8,5,2,4>>,
        <<9,5,4,3,2,7,1,8,6>>,
        <<8,6,2,5,1,4,7,3,9>> >>[i + 1][j + 1]]]

(* the grid of nine rows "000000000" *)
Empty == [i \in Idx |-> [j \in Idx |-> 0]]

(* at most MaxHoles cells of the window are typed as 0 *)
MaxHoles == 5

(* the window of cells in which the typed-in grid may differ from Sol *)
Pool == (0 .. 2) \X (5 .. 7)

Blank(g, H) == [i \in Idx |-> [j \in Idx |-> IF <<i, j>> \in H THEN 0 ELSE g[i][j]]]

Put(g, w, v) == [g EXCEPT ![w[1]][w[2]] = v]

HoleSets == {H \in SUBSET Pool : Cardinality(H) <= MaxHoles}

(* the grids the user may type: Sol with some cells of the window left 0   *)
(* and at most one further cell of the window typed as another digit, the  *)
(* sample grid and the all-zero grid                                       *)
Inputs ==
  {Blank(Sol, H) : H \in HoleSets}
    \cup {Put(Blank(Sol, x[1]), x[2], x[3]) :
            x \in {y \in HoleSets \X Pool \X Digits :
                     y[2] \notin y[1] /\ y[3] # Sol[y[2][1]][y[2][2]]}}
    \cup {Sample, Empty}

(* checks the numbers in a row *)
checkrow(r, p) == SelectSeq([k \in 1 .. N |-> k], LAMBDA v : v \notin Range(p[r]))

(* checkcol with the two subscripts exchanged: puzzle[c][row] *)
checkcol_Swapped(c, p) ==
  SelectSeq([k \in 1 .. N |-> k], LAMBDA v : v \notin {p[c][row] : row \in Idx})

(* checks the numbers in a column *)
checkcol(c, p) ==
  SelectSeq([k \in 1 .. N |-> k], LAMBDA v : v \notin {p[row][c] : row \in Idx})

(* checkbox with the column slice taken from n/3 and not from n%3 *)
boxcells_Div(n) ==
  [m \in 1 .. 9 |->
     LET j == (m - 1) \div 3
         k == (m - 1) % 3
     IN  <<((n \div 3) * 3) + j, (3 * (n \div 3)) + k>>]

(* the cells whose values checkbox(n, puzzle) collects into box, in order: *)
(* for j in range(3), the slice puzzle[(n/3)*3 + j][3*(n%3) : ((n%3)+1)*3] *)
boxcells(n) ==
  [m \in 1 .. 9 |->
     LET j == (m - 1) \div 3
         k == (m - 1) % 3
     IN  <<((n \div 3) * 3) + j, (3 * (n % 3)) + k>>]

(* checks the numbers in a 3X3 box *)
checkbox(n, p) ==
  LET box == [m \in 1 .. 9 |-> p[boxcells(n)[m][1]][boxcells(n)[m][2]]]
  IN  SelectSeq([k \in 1 .. N |-> k], LAMBDA v : v \notin Range(box))

(* the box index with j%3 in place of j/3 *)
boxindex_Mod(i, j) == ((i \div 3) * 3) + (j % 3)

(* the index into missingbox that sud uses for the cell (i, j) *)
boxindex(i, j) == ((i \div 3) * 3) + (j \div 3)

(* tmp in sud: the values possible on the cell (i, j) *)
tmp(i, j, p) ==
  LET mr == Range(checkrow(i, p))
      mc == Range(checkcol(j, p))
      mb == Range(checkbox(boxindex(i, j), p))
  IN  (mr \cap mc) \cap mb

(* sud taking the first possible value whenever there is one: len(tmp) >= 1 *)
entry_Any(i, j, p) ==
  IF p[i][j] = 0
    THEN IF Cardinality(tmp(i, j, p)) >= 1
           THEN CHOOSE v \in tmp(i, j, p) : \A u \in tmp(i, j, p) : v <= u
           ELSE 0
    ELSE p[i][j]

(* what sud appends to solution for the cell (i, j) *)
entry(i, j, p) ==
  IF p[i][j] = 0
    THEN IF Cardinality(tmp(i, j, p)) = 1 THEN CHOOSE v \in tmp(i, j, p) : TRUE ELSE 0
    ELSE p[i][j]

(* the flat list solution of sud, appended to in row-major order *)
solution(p) == [m \in 1 .. (N * N) |-> entry((m - 1) \div N, (m - 1) % N, p)]

(* the slices taken off by one: solution[9*i+1 : 9*i+10] *)
solution1_Shift(p) ==
  [i \in Idx |-> [j \in Idx |->
     IF (9 * i) + j + 2 <= N * N THEN solution(p)[(9 * i) + j + 2] ELSE 0]]

(* solution1: the slices solution[9*i : 9*i+9] *)
solution1(p) == [i \in Idx |-> [j \in Idx |-> solution(p)[(9 * i) + j + 1]]]

(* finished in sud: no cell of the grid passed in is 0 *)
finished(p) == \A i \in Idx : \A j \in Idx : p[i][j] # 0

(* actual sudoku solving function: returns {finished: solution1} *)
sud(p) == finished(p) :> solution1(p)

(* the state after the grid has been read; done is not bound yet *)
Init ==
  /\ puzzle \in Inputs
  /\ done = << >>
  /\ pc = "start"

(* done = sud(puzzle) *)
FirstCall ==
  /\ pc = "start"
  /\ done' = sud(puzzle)
  /\ pc' = "loop"
  /\ UNCHANGED puzzle

(* while False in done.keys(): done = sud(done[False])                     *)
(* When sud returns the grid it was given, the call leaves the state as it *)
(* is: the loop that then repeats forever is a behaviour that stutters in  *)
(* a state where LoopCall stays enabled.                                   *)
LoopCall ==
  /\ pc = "loop"
  /\ FALSE \in DOMAIN done
  /\ done' = sud(done[FALSE])
  /\ UNCHANGED <<puzzle, pc>>

(* the loop ends and done[True] is printed *)
PrintResult ==
  /\ pc = "loop"
  /\ FALSE \notin DOMAIN done
  /\ pc' = "done"
  /\ UNCHANGED <<puzzle, done>>

Next == FirstCall \/ LoopCall \/ PrintResult

Spec == Init /\ [][Next]_vars

(* the program runs on: a loop that is entered keeps calling sud *)
FairSpec == Spec /\ WF_vars(Next)

(***************************************************************************)
(* Vocabulary of the properties, stated on cells and regions and not with  *)
(* the lists that sud builds.                                              *)
(***************************************************************************)

(* the grid passed to the next call of sud *)
Arg == IF pc = "start" THEN puzzle ELSE done[CHOOSE k \in DOMAIN done : TRUE]

(* the grid held by a returned dict *)
Grid(d) == d[CHOOSE k \in DOMAIN d : TRUE]

(* a step that is one call of sud *)
IsSweep == FirstCall \/ LoopCall

RowOf(r) == {x \in Cells : x[1] = r}

ColOf(c) == {x \in Cells : x[2] = c}

BlockOf(r, c) == {x \in Cells : x[1] \div 3 = r \div 3 /\ x[2] \div 3 = c \div 3}

Regions ==
  {RowOf(r) : r \in Idx} \cup {ColOf(c) : c \in Idx}
    \cup {BlockOf(3 * a, 3 * b) : a \in 0 .. 2, b \in 0 .. 2}

At(g, x) == g[x[1]][x[2]]

Holes(g) == {x \in Cells : At(g, x) = 0}

(* the nonzero values of every row, column and box are pairwise distinct *)
IsValid(g) ==
  \A R \in Regions : \A x \in R : \A y \in R :
    (x # y /\ At(g, x) # 0) => At(g, x) # At(g, y)

(* all 81 values in 1..9 and every region pairwise distinct *)
IsSolved(g) == Holes(g) = {} /\ IsValid(g)

(* s agrees with g on every nonzero cell of g *)
Extends(s, g) == \A x \in Cells : At(g, x) # 0 => At(s, x) = At(g, x)

Peers(x) == RowOf(x[1]) \cup ColOf(x[2]) \cup BlockOf(x[1], x[2])

(* the values absent from the row, the column and the box of x in g *)
Cand(g, x) == {v \in Digits : \A y \in Peers(x) : At(g, y) # v}

(* all complete valid grids that extend a valid grid g, by exhaustive       *)
(* search over the empty cells                                              *)
RECURSIVE Search(_)
Search(g) ==
  IF Holes(g) = {}
    THEN {g}
    ELSE LET x == CHOOSE y \in Holes(g) : TRUE
         IN  UNION {Search(Put(g, x, v)) : v \in Cand(g, x)}

(* the completions of g: all of them when the empty cells of g lie in the   *)
(* window; for the two large grids only the known completion Sol            *)
Completions(g) ==
  IF ~IsValid(g)
    THEN {}
    ELSE IF Holes(g) \subseteq Pool
           THEN Search(g)
           ELSE {s \in {Sol} : IsSolved(s) /\ Extends(s, g)}

Solvable(g) == Completions(g) # {}

(* some empty cell of g has no candidate *)
Contradiction(g) == \E x \in Holes(g) : Cand(g, x) = {}

TypeOK ==
  /\ pc \in {"start", "loop", "done"}
  /\ pc = "start" => done = << >>
  /\ pc # "start" => Cardinality(DOMAIN done) = 1 /\ DOMAIN done \subseteq BOOLEAN
  /\ pc = "done" => TRUE \in DOMAIN done

(***************************************************************************)
(* C1: for every solvable input the driver terminates and returns a        *)
(* complete grid with no cell equal to 0.                                  *)
(***************************************************************************)
C1_Terminates ==
  (pc = "start" /\ Solvable(puzzle)) ~> (pc = "done" /\ Holes(done[TRUE]) = {})

(***************************************************************************)
(* C2: a grid returned under the key True has all 81 values in 1..9 and    *)
(* pairwise distinct values in every row, column and box; for an input     *)
(* that has no completion no grid is returned.                             *)
(***************************************************************************)
C2_ResultSolved ==
  /\ pc = "done" => IsSolved(done[TRUE])
  /\ ~Solvable(puzzle) => pc # "done"

(***************************************************************************)
(* C3: a sweep leaves every nonzero cell as it is; so every clue of the    *)
(* input is unchanged after any number of sweeps, no filled cell becomes   *)
(* empty and the number of empty cells never increases.                    *)
(***************************************************************************)
C3_Monotone ==
  /\ [](pc # "start" => Extends(Grid(done), puzzle))
  /\ [][IsSweep =>
          /\ Extends(Grid(done'), Arg)
          /\ Holes(Grid(done')) \subseteq Holes(Arg)
          /\ Cardinality(Holes(Grid(done'))) <= Cardinality(Holes(Arg))]_vars

(* a sweep has filled an empty cell of an input that has clues *)
C3_Witness ==
  /\ pc # "start"
  /\ \E x \in Cells : At(puzzle, x) = 0 /\ At(Grid(done), x) # 0
  /\ \E y \in Cells : At(puzzle, y) # 0 /\ At(Grid(done), y) = At(puzzle, y)

(***************************************************************************)
(* C4: after a sweep in which some empty cell has an empty candidate set   *)
(* no further sweep is scheduled.                                          *)
(***************************************************************************)
C4_ContradictionStops ==
  [][(IsSweep /\ Contradiction(Arg)) => FALSE \notin DOMAIN done']_vars

(***************************************************************************)
(* C5: no call of sud is made on an input whose clues repeat a value in a  *)
(* row, a column or a box.                                                 *)
(***************************************************************************)
C5_InvalidRejected == pc # "start" => IsValid(puzzle)

(***************************************************************************)
(* C6: on the sample grid the driver terminates and returns a complete     *)
(* grid with each of 1..9 once in every row, column and box and with every *)
(* clue unchanged.                                                         *)
(***************************************************************************)
C6_Sample ==
  (pc = "start" /\ puzzle = Sample)
    ~> (pc = "done" /\ IsSolved(done[TRUE]) /\ Extends(done[TRUE], Sample)
          /\ \A R \in Regions : {At(done[TRUE], x) : x \in R} = Digits)

(* the sample grid has been solved and printed *)
C6_Witness == pc = "done" /\ puzzle = Sample /\ Holes(puzzle) # {} /\ IsSolved(done[TRUE])

(***************************************************************************)
(* C7: after a sweep another sweep is scheduled only if that sweep         *)
(* assigned at least one cell and the grid is still incomplete.            *)
(***************************************************************************)
C7_LoopHalts ==
  [][IsSweep =>
       (FALSE \in DOMAIN done' =>
          (Grid(done') # Arg /\ Holes(Grid(done')) # {}))]_vars

(***************************************************************************)
(* C8: in one sweep an empty cell receives v exactly when v is the only    *)
(* value absent from its row, column and box in the grid before the sweep, *)
(* and stays 0 otherwise; the grid passed in is not changed.               *)
(***************************************************************************)
C8_Sweep ==
  [][IsSweep =>
       /\ \A x \in Holes(Arg) :
            /\ \A v \in Digits : At(Grid(done'), x) = v <=> Cand(Arg, x) = {v}
            /\ Cardinality(Cand(Arg, x)) # 1 => At(Grid(done'), x) = 0
       /\ puzzle' = puzzle]_vars

(* after a sweep that filled the cell x, a peer y of x is still empty       *)
(* although x's new value leaves y a single candidate                      *)
C8_Witness ==
  /\ pc = "loop"
  /\ \E x \in Holes(puzzle) : \E y \in Holes(Grid(done)) \cap Peers(x) :
       /\ At(Grid(done), x) # 0
       /\ Cardinality(Cand(puzzle, y)) = 2
       /\ Cardinality(Cand(Grid(done), y)) = 1

(* the cells read by checkbox(n) are those whose box index is n, each box  *)
(* has 9 cells and the boxes cover all cells                               *)
BoxPartition ==
  /\ \A x \in Cells : \A n \in Idx :
       x \in Range(boxcells(n)) <=> n = boxindex(x[1], x[2])
  /\ \A n \in Idx : Cardinality(Range(boxcells(n))) = 9
  /\ UNION {Range(boxcells(n)) : n \in Idx} = Cells

(***************************************************************************)
(* C9: the box index (r div 3)*3 + (c div 3) of a cell is the one box      *)
(* whose cells, as read by checkbox, contain the cell; each box has 9      *)
(* cells and the 9 boxes partition the 81 cells; so the missing values     *)
(* sud uses for a cell are those absent from the cell's 3x3 block.         *)
(***************************************************************************)
C9_BoxAgree ==
  /\ BoxPartition
  /\ \A a \in 0 .. 2 : \A b \in 0 .. 2 :
       Range(checkbox(boxindex(3 * a, 3 * b), Arg))
         = Digits \ {At(Arg, y) : y \in BlockOf(3 * a, 3 * b)}

(* a sweep has filled a cell of box 2, whose row and column offsets differ *)
C9_Witness ==
  /\ pc # "start"
  /\ \E x \in Holes(puzzle) :
       /\ At(Grid(done), x) # 0
       /\ boxindex(x[1], x[2]) = 2
       /\ x \in Range(boxcells(2))

(***************************************************************************)
(* C10: for a valid input with a completion, after any number of sweeps    *)
(* the grid is valid and every filled cell has the value it has in every   *)
(* completion of the input.                                                *)
(***************************************************************************)
C10_Sound ==
  (pc # "start" /\ IsValid(puzzle) /\ Solvable(puzzle)) =>
    /\ IsValid(Grid(done))
    /\ \A s \in Completions(puzzle) : Extends(s, Grid(done))

(* a sweep has filled a cell of an input that has two completions *)
C10_Witness ==
  /\ pc # "start"
  /\ IsValid(puzzle)
  /\ Cardinality(Completions(puzzle)) >= 2
  /\ Grid(done) # puzzle
====
